---- MODULE Spec2Model ----
(***************************************************************************)
(* Steering, intercept prediction and estimation core of spacepoort        *)
(* (src/src/lib.rs: modules movement and perception).                      *)
(*                                                                         *)
(* Numbers.  An f64 is modelled by an exact rational <<n, d>> in lowest    *)
(* terms with d > 0, extended by the IEEE special values with d = 0:       *)
(* NaN = <<0,0>>, +inf = <<1,0>>, -inf = <<-1,0>>.  Rounding of finite     *)
(* results and the sign of zero are not represented (zero is +0.0).        *)
(* Angles are held in units of pi: a half turn is 1.                       *)
(*                                                                         *)
(* Intermediate values of the source (its let bindings) are passed as      *)
(* operator arguments, so each function of the source is one or two        *)
(* operators here: the function and the rest of its body after a binding.  *)
(***************************************************************************)
EXTENDS Integers, Sequences, FiniteSets, TLC

VARIABLES
    kalman,        \* perception::Kalman {count, estimate}
    measurements,  \* the values fed to Kalman::update so far, oldest first
    dyn,           \* perception::DynKalman {alpha, beta, interval, est_value, est_change}
    dyn_call,      \* the last DynKalman call: its name, its argument, its result
    motor,         \* the Motor view of the ship this tick
    strategy,      \* the MovementStrategy object executed this tick
    wander,        \* the Wander object the caller keeps across ticks
    out,           \* what MovementStrategy::execute returned this tick
    shot,          \* the receiver and arguments of lead_time
    lead           \* what the last lead_time / lead_position call returned

vars == <<kalman, measurements, dyn, dyn_call, motor, strategy, wander, out, shot, lead>>

---------------------------------------------------------------------------
(* f64 arithmetic *)

Abs(n) == IF n < 0 THEN -n ELSE n

Sign(n) == IF n < 0 THEN -1 ELSE IF n > 0 THEN 1 ELSE 0

RECURSIVE GCD(_, _)
GCD(a, b) == IF b = 0 THEN a ELSE GCD(b, a % b)

Norm(n, d) ==
    IF d = 0 THEN <<Sign(n), 0>>
    ELSE <<(Sign(d) * n) \div GCD(Abs(n), Abs(d)), Abs(d) \div GCD(Abs(n), Abs(d))>>

R(n) == <<n, 1>>

Q(n, d) == Norm(n, d)

NaN == <<0, 0>>

PosInf == <<1, 0>>

NegInf == <<-1, 0>>

Zero == <<0, 1>>

IsNaN(x) == x = NaN

IsFinite(x) == x[2] # 0

FNeg(x) == <<-x[1], x[2]>>

AddOver(x, y, g) ==
    Norm(x[1] * (y[2] \div g) + y[1] * (x[2] \div g), x[2] * (y[2] \div g))

FAdd(x, y) ==
    IF IsFinite(x) /\ IsFinite(y) THEN AddOver(x, y, GCD(x[2], y[2]))
    ELSE IF IsNaN(x) \/ IsNaN(y) THEN NaN
    ELSE IF IsFinite(x) THEN y
    ELSE IF IsFinite(y) THEN x
    ELSE IF x = y THEN x ELSE NaN

FSub(x, y) == FAdd(x, FNeg(y))

MulOver(x, y, g1, g2) ==
    Norm((x[1] \div g1) * (y[1] \div g2), (x[2] \div g2) * (y[2] \div g1))

FMul(x, y) ==
    IF IsFinite(x) /\ IsFinite(y)
    THEN MulOver(x, y, GCD(Abs(x[1]), y[2]), GCD(Abs(y[1]), x[2]))
    ELSE Norm(x[1] * y[1], 0)

\* 1/x; 1/0.0 is +inf
FRecip(x) == IF x[1] < 0 THEN <<-x[2], -x[1]>> ELSE <<x[2], x[1]>>

FDiv(x, y) == FMul(x, FRecip(y))

LtOver(x, y, g) == x[1] * (y[2] \div g) < y[1] * (x[2] \div g)

FLt(x, y) ==
    IF IsNaN(x) \/ IsNaN(y) THEN FALSE
    ELSE IF IsFinite(x) /\ IsFinite(y) THEN LtOver(x, y, GCD(x[2], y[2]))
    ELSE IF IsFinite(x) THEN y = PosInf
    ELSE IF IsFinite(y) THEN x = NegInf
    ELSE x = NegInf /\ y = PosInf

FEq(x, y) == ~IsNaN(x) /\ ~IsNaN(y) /\ x = y

FLe(x, y) == FLt(x, y) \/ FEq(x, y)

FGt(x, y) == FLt(y, x)

FAbs(x) == <<Abs(x[1]), x[2]>>

\* f64::min and f64::max: the other operand when one is NaN
FMin(x, y) == IF IsNaN(x) THEN y ELSE IF IsNaN(y) THEN x ELSE IF FLt(y, x) THEN y ELSE x

FMax(x, y) == IF IsNaN(x) THEN y ELSE IF IsNaN(y) THEN x ELSE IF FLt(x, y) THEN y ELSE x

Mid(lo, hi) == (lo + hi + 1) \div 2

RECURSIVE SqrtFloor(_, _, _)
SqrtFloor(n, lo, hi) ==
    IF lo >= hi THEN lo
    ELSE IF Mid(lo, hi) * Mid(lo, hi) <= n THEN SqrtFloor(n, Mid(lo, hi), hi)
    ELSE SqrtFloor(n, lo, Mid(lo, hi) - 1)

\* The integer square root; 46340 is the largest root a 32-bit square has.
Root(n) == SqrtFloor(n, 0, IF n < 46340 THEN n ELSE 46340)

\* f64::sqrt is exact on the squares of rationals, which are the values the
\* model takes roots of.
IsSquare(x) ==
    \/ ~IsFinite(x)
    \/ x[1] < 0
    \/ Root(x[1]) * Root(x[1]) = x[1] /\ Root(x[2]) * Root(x[2]) = x[2]

FSqrt(x) ==
    IF IsNaN(x) \/ x[1] < 0 THEN NaN
    ELSE IF ~IsFinite(x) THEN PosInf
    ELSE <<Root(x[1]), Root(x[2])>>

---------------------------------------------------------------------------
(* std::time::Duration *)

NANOS_PER_SEC == 1000 * 1000 * 1000

Seconds(n) == [secs |-> n, nanos |-> 0]

\* What a panicking Duration constructor leaves: no Duration.
InvalidDuration == [secs |-> -1, nanos |-> 0]

IsDuration(d) == d.secs >= 0

\* Duration::as_secs_f64
AsSecsF64(d) == FAdd(R(d.secs), Q(d.nanos, NANOS_PER_SEC))

\* The whole nanoseconds in r/d seconds (r < d), and what is left of the division
NanosFloor(r, d) == r * (NANOS_PER_SEC \div d) + ((r * (NANOS_PER_SEC % d)) \div d)

NanosRest(r, d) == (r * (NANOS_PER_SEC % d)) % d

RoundUp(floor, rest, d) ==
    IF 2 * rest > d \/ (2 * rest = d /\ floor % 2 = 1) THEN 1 ELSE 0

Carry(whole, nanos) ==
    IF nanos = NANOS_PER_SEC THEN [secs |-> whole + 1, nanos |-> 0]
    ELSE [secs |-> whole, nanos |-> nanos]

\* Duration::from_secs_f64: panics on a negative, infinite or NaN argument,
\* otherwise rounds to the nearest nanosecond (ties to even).
DurationFromSecsF64(x) ==
    IF ~IsFinite(x) \/ x[1] < 0 THEN InvalidDuration
    ELSE Carry(x[1] \div x[2],
               NanosFloor(x[1] % x[2], x[2])
               + RoundUp(NanosFloor(x[1] % x[2], x[2]), NanosRest(x[1] % x[2], x[2]), x[2]))

\* The times the model converts are whole numbers of nanoseconds.
OnNanosecondGrid(x) == ~IsFinite(x) \/ NANOS_PER_SEC % x[2] = 0

---------------------------------------------------------------------------
(* Vec2 *)

Vec(x, y) == <<R(x), R(y)>>

VZero == <<Zero, Zero>>

VAdd(u, v) == <<FAdd(u[1], v[1]), FAdd(u[2], v[2])>>

VSub(u, v) == <<FSub(u[1], v[1]), FSub(u[2], v[2])>>

VScale(v, k) == <<FMul(v[1], k), FMul(v[2], k)>>

VDot(u, v) == FAdd(FMul(u[1], v[1]), FMul(u[2], v[2]))

sq_length(v) == FAdd(FMul(v[1], v[1]), FMul(v[2], v[2]))

VLength(v) == FSqrt(sq_length(v))

HasLength(v) == IsSquare(sq_length(v))

VNormalize(v) == <<FDiv(v[1], VLength(v)), FDiv(v[2], VLength(v))>>

PI == R(1)

TAU == R(2)

deg_to_rad(x) == FDiv(x, R(180))

\* Vec2::rotate turns by an angle; it is given on the angles the model
\* draws, the multiples of a quarter turn.
QuarterTurns(a) == IF 2 % a[2] = 0 THEN ((2 * a[1]) \div a[2]) % 4 ELSE -1

Cos(a) == CASE QuarterTurns(a) = 0 -> R(1)
            [] QuarterTurns(a) = 1 -> R(0)
            [] QuarterTurns(a) = 2 -> R(-1)
            [] QuarterTurns(a) = 3 -> R(0)

Sin(a) == CASE QuarterTurns(a) = 0 -> R(0)
            [] QuarterTurns(a) = 1 -> R(1)
            [] QuarterTurns(a) = 2 -> R(0)
            [] QuarterTurns(a) = 3 -> R(-1)

VRotate(v, a) ==
    <<FSub(FMul(v[1], Cos(a)), FMul(v[2], Sin(a))),
      FAdd(FMul(v[1], Sin(a)), FMul(v[2], Cos(a)))>>

\* Vec2::angle is atan2(y, x); it is given on the directions the model
\* draws, along the axes and the diagonals.
HasAngle(v) ==
    /\ IsFinite(v[1]) /\ IsFinite(v[2])
    /\ (v[1][1] = 0 \/ v[2][1] = 0 \/ FAbs(v[1]) = FAbs(v[2]))

VAngle(v) ==
    CASE v[2][1] = 0 /\ v[1][1] >= 0 -> R(0)
      [] v[2][1] = 0 /\ v[1][1] < 0 -> R(1)
      [] v[1][1] = 0 /\ v[2][1] > 0 -> Q(1, 2)
      [] v[1][1] = 0 /\ v[2][1] < 0 -> Q(-1, 2)
      [] FAbs(v[1]) = FAbs(v[2]) /\ v[1][1] > 0 /\ v[2][1] > 0 -> Q(1, 4)
      [] FAbs(v[1]) = FAbs(v[2]) /\ v[1][1] < 0 /\ v[2][1] > 0 -> Q(3, 4)
      [] FAbs(v[1]) = FAbs(v[2]) /\ v[1][1] > 0 /\ v[2][1] < 0 -> Q(-1, 4)
      [] FAbs(v[1]) = FAbs(v[2]) /\ v[1][1] < 0 /\ v[2][1] < 0 -> Q(-3, 4)

\* f64::rem_euclid by a positive whole modulus
RemEuclid(x, modulus) ==
    IF ~IsFinite(x) THEN NaN ELSE Norm(x[1] % (modulus * x[2]), x[2])

\* oort_api::angle_diff: the rotation from a to b, in (-PI, PI]
angle_diff(a, b) ==
    IF FGt(RemEuclid(FSub(b, a), 2), PI) THEN FSub(RemEuclid(FSub(b, a), 2), TAU)
    ELSE RemEuclid(FSub(b, a), 2)

---------------------------------------------------------------------------
(* perception::Kalman *)

KalmanNew(value) == [count |-> 0, estimate |-> value]

KalmanGainFixed(k) == Q(1, 2)

KalmanGain(k) == FDiv(R(1), R(k.count))

\* self.count += 1; self.estimate += self.gain() * (value - self.estimate)
KalmanUpdate(k, value) ==
    [count |-> k.count + 1,
     estimate |-> FAdd(k.estimate,
                       FMul(KalmanGain([k EXCEPT !.count = k.count + 1]),
                            FSub(value, k.estimate)))]

---------------------------------------------------------------------------
(* perception::DynKalman *)

DynKalmanNew(estimate, delta, interval) ==
    [alpha |-> Q(2, 10), beta |-> Q(1, 10), interval |-> interval,
     est_value |-> estimate, est_change |-> delta]

DynKalmanPredict(d) ==
    <<FAdd(d.est_value, FMul(d.est_change, AsSecsF64(d.interval))), d.est_change>>

\* The two assignments of update, from the prediction (pred_pos, pred_vel)
DynKalmanCorrect(d, measurement, pred) ==
    [d EXCEPT
        !.est_value = FAdd(pred[1], FMul(d.alpha, FSub(measurement, pred[1]))),
        !.est_change = FAdd(pred[2],
                            FDiv(FMul(d.beta, FSub(measurement, pred[1])),
                                 AsSecsF64(d.interval)))]

DynKalmanUpdateUnpredicted(d, measurement) ==
    DynKalmanCorrect(d, measurement, <<d.est_value, d.est_change>>)

DynKalmanUpdate(d, measurement) == DynKalmanCorrect(d, measurement, DynKalmanPredict(d))

---------------------------------------------------------------------------
(* movement::Kinematic and movement::Motor *)

TICK_LENGTH == Q(1, 60)

forward(k) == VRotate(Vec(1, 0), k.orientation)

speed(k) == VLength(k.velocity)

at_time(k, time) == VAdd(k.position, VScale(k.velocity, AsSecsF64(time)))

slow_radius(m) == R(100)

stop_radius(m) == R(25)

slow_angle(m) == deg_to_rad(R(90))

stop_angle(m) == deg_to_rad(Q(1, 2))

time_to_target(m) == DurationFromSecsF64(TICK_LENGTH)

---------------------------------------------------------------------------
(* Kinematic::lead_time and Kinematic::lead_position *)

\* Option<Duration> and Option<Vec2>; "Panic" is a call that never returned.
NoLead == [op |-> "none", status |-> "None", time |-> Seconds(0), position |-> VZero]

LeadA(k, projectile_speed) ==
    FSub(sq_length(k.velocity), FMul(projectile_speed, projectile_speed))

LeadB(k, cannon) == FMul(R(2), VDot(k.velocity, VSub(k.position, cannon)))

LeadC(k, cannon) == sq_length(VSub(k.position, cannon))

Discriminant(a, b, c) == FSub(FMul(b, b), FMul(FMul(R(4), a), c))

LeadDiscriminant(k, cannon, projectile_speed) ==
    Discriminant(LeadA(k, projectile_speed), LeadB(k, cannon), LeadC(k, cannon))

\* (-b + sign * disc.sqrt()) / (2.0 * a)
LeadRoot(a, b, disc, sign) ==
    FDiv(FAdd(FNeg(b), FMul(sign, FSqrt(disc))), FMul(R(2), a))

\* The candidate times for sign 1.0, then -1.0
LeadRoots(k, cannon, projectile_speed) ==
    <<LeadRoot(LeadA(k, projectile_speed), LeadB(k, cannon),
               LeadDiscriminant(k, cannon, projectile_speed), R(1)),
      LeadRoot(LeadA(k, projectile_speed), LeadB(k, cannon),
               LeadDiscriminant(k, cannon, projectile_speed), R(-1))>>

\* .map(|t| Duration::from_secs_f64(t))
LeadDuration(d) ==
    IF IsDuration(d) THEN [NoLead EXCEPT !.op = "lead_time", !.status = "Some", !.time = d]
    ELSE [NoLead EXCEPT !.op = "lead_time", !.status = "Panic"]

\* .filter(|t| *t > 0.0).reduce(f64::min)
LeadPick(roots) ==
    IF FGt(roots[1], Zero) /\ FGt(roots[2], Zero)
    THEN LeadDuration(DurationFromSecsF64(FMin(roots[1], roots[2])))
    ELSE IF FGt(roots[1], Zero) THEN LeadDuration(DurationFromSecsF64(roots[1]))
    ELSE IF FGt(roots[2], Zero) THEN LeadDuration(DurationFromSecsF64(roots[2]))
    ELSE [NoLead EXCEPT !.op = "lead_time"]

lead_time(k, cannon, projectile_speed) ==
    IF FLt(LeadDiscriminant(k, cannon, projectile_speed), Zero)
    THEN [NoLead EXCEPT !.op = "lead_time"]
    ELSE LeadPick(LeadRoots(k, cannon, projectile_speed))

\* .map(|t| self.at_time(t))
LeadAt(k, t) ==
    IF t.status = "Some"
    THEN [t EXCEPT !.op = "lead_position", !.position = at_time(k, t.time)]
    ELSE [t EXCEPT !.op = "lead_position"]

lead_position(k, cannon, projectile_speed) ==
    LeadAt(k, lead_time(k, cannon, projectile_speed))

---------------------------------------------------------------------------
(* Accelerations and Option<(Vec2, f64)> *)

\* An acceleration is a pair <<p, q>> standing for
\*     p + q / motor.time_to_target().as_secs_f64():
\* the strategies add, scale and return accelerations and never compare them,
\* so the quotient by the control horizon is kept as the second coordinate.
AccZero == <<Zero, Zero>>

Acc(x) == <<x, Zero>>

AccOverHorizon(x) == <<Zero, x>>

AccAdd(a, b) == <<FAdd(a[1], b[1]), FAdd(a[2], b[2])>>

AccScale(a, k) == <<FMul(a[1], k), FMul(a[2], k)>>

AccVec(v) == <<Acc(v[1]), Acc(v[2])>>

AccVecOverHorizon(v) == <<AccOverHorizon(v[1]), AccOverHorizon(v[2])>>

AccVecZero == <<AccZero, AccZero>>

AccVecAdd(u, v) == <<AccAdd(u[1], v[1]), AccAdd(u[2], v[2])>>

AccVecScale(v, k) == <<AccScale(v[1], k), AccScale(v[2], k)>>

\* "Panic" is a call that never returned.
None == [status |-> "None", linear |-> AccVecZero, angular |-> AccZero]

Some(linear, angular) == [status |-> "Some", linear |-> linear, angular |-> angular]

Panic == [status |-> "Panic", linear |-> AccVecZero, angular |-> AccZero]

\* Option::unwrap_or((Vec2::zero(), 0.0))
UnwrapOrZero(o) == IF o.status = "Some" THEN o ELSE Some(AccVecZero, AccZero)

---------------------------------------------------------------------------
(* movement::MovementStrategy and its implementations *)

NoKinematic == [position |-> VZero, velocity |-> VZero, orientation |-> Zero, rotation |-> Zero]

NoStrategy ==
    [kind |-> "none", target |-> VZero, angle |-> Zero, prey |-> NoKinematic,
     max_prediction |-> Seconds(0), moves |-> <<>>]

Seek(target) == [NoStrategy EXCEPT !.kind = "Seek", !.target = target]

Flee(target) == [NoStrategy EXCEPT !.kind = "Flee", !.target = target]

Arrive(target) == [NoStrategy EXCEPT !.kind = "Arrive", !.target = target]

Align(angle) == [NoStrategy EXCEPT !.kind = "Align", !.angle = angle]

Face(target) == [NoStrategy EXCEPT !.kind = "Face", !.target = target]

Pursue(prey, max_prediction) ==
    [NoStrategy EXCEPT !.kind = "Pursue", !.prey = prey, !.max_prediction = max_prediction]

Evade(prey, max_prediction) ==
    [NoStrategy EXCEPT !.kind = "Evade", !.prey = prey, !.max_prediction = max_prediction]

MovementBlend(moves) == [NoStrategy EXCEPT !.kind = "MovementBlend", !.moves = moves]

\* Seek: the match on direction.length()
SeekAlongUnscaled(direction, m) ==
    IF FEq(VLength(direction), Zero) THEN None
    ELSE Some(AccVec(VNormalize(direction)), AccZero)

SeekAlong(direction, m) ==
    IF FEq(VLength(direction), Zero) THEN None
    ELSE Some(AccVec(VScale(VNormalize(direction), m.max_linear_acceleration)), AccZero)

SeekExecute(s, m) == SeekAlong(VSub(s.target, m.position), m)

\* Flee: the match on direction.length()
FleeAlong(direction, m) ==
    IF FEq(VLength(direction), Zero) THEN None
    ELSE Some(AccVec(VScale(VNormalize(direction), m.max_linear_acceleration)), AccZero)

FleeExecute(s, m) == FleeAlong(VSub(m.position, s.target), m)

ArriveMagnitudeFromStop(radius, m) ==
    IF FLe(radius, slow_radius(m))
    THEN FDiv(FMul(m.max_linear_acceleration, FSub(radius, stop_radius(m))), slow_radius(m))
    ELSE m.max_linear_acceleration

\* Arrive: the arms of the match on direction.length() past the stop radius
ArriveMagnitude(radius, m) ==
    IF FLe(radius, slow_radius(m))
    THEN FDiv(FMul(m.max_linear_acceleration, radius), slow_radius(m))
    ELSE m.max_linear_acceleration

ArriveAlong(direction, m) ==
    IF FLe(VLength(direction), stop_radius(m)) THEN None
    ELSE Some(AccVecOverHorizon(
                  VSub(VScale(VNormalize(direction), ArriveMagnitude(VLength(direction), m)),
                       m.velocity)),
              AccZero)

ArriveExecute(s, m) == ArriveAlong(VSub(s.target, m.position), m)

\* Align: the match on direction.abs()
AlignMagnitude(angle, m) ==
    IF FLe(angle, stop_angle(m)) THEN Zero
    ELSE IF FLt(angle, slow_angle(m))
    THEN FDiv(FMul(m.max_angular_acceleration, angle), slow_angle(m))
    ELSE m.max_angular_acceleration

\* magnitude * direction / direction.abs()
AlignTargetRotation(direction, m) ==
    FDiv(FMul(AlignMagnitude(FAbs(direction), m), direction), FAbs(direction))

AlignDeltaRotation(s, m) ==
    FSub(AlignTargetRotation(angle_diff(m.orientation, s.angle), m), m.rotation)

\* Align: the match on delta_rotation
AlignCommand(delta_rotation) ==
    IF FEq(delta_rotation, Zero) THEN None
    ELSE Some(AccVecZero, AccOverHorizon(delta_rotation))

AlignExecute(s, m) == AlignCommand(AlignDeltaRotation(s, m))

FaceExecute(s, m) ==
    IF VSub(s.target, m.position) = VZero THEN None
    ELSE AlignExecute(Align(VAngle(VSub(s.target, m.position))), m)

PursueHorizonUncapped(distance, s, m) == DurationFromSecsF64(FDiv(distance, speed(m)))

\* Pursue: the prediction, from direction.length()
PursueHorizon(distance, s, m) ==
    IF FLe(speed(m), FDiv(distance, AsSecsF64(s.max_prediction)))
    THEN s.max_prediction
    ELSE DurationFromSecsF64(FDiv(distance, speed(m)))

PursuePrediction(s, m) == PursueHorizon(VLength(VSub(s.prey.position, m.position)), s, m)

PursueSeek(prediction, s, m) ==
    IF ~IsDuration(prediction) THEN Panic
    ELSE SeekExecute(Seek(at_time(s.prey, prediction)), m)

PursueExecute(s, m) == PursueSeek(PursuePrediction(s, m), s, m)

\* Evade: the prediction, from direction.length()
EvadeHorizon(distance, s, m) ==
    IF FLe(speed(m), FDiv(distance, AsSecsF64(s.max_prediction)))
    THEN s.max_prediction
    ELSE DurationFromSecsF64(FDiv(distance, speed(m)))

EvadePrediction(s, m) == EvadeHorizon(VLength(VSub(s.prey.position, m.position)), s, m)

EvadeFlee(prediction, s, m) ==
    IF ~IsDuration(prediction) THEN Panic
    ELSE FleeExecute(Flee(at_time(s.prey, prediction)), m)

EvadeExecute(s, m) == EvadeFlee(EvadePrediction(s, m), s, m)

\* self.orientation += rand(-1.0, 1.0) * self.rate * TICK_LENGTH
WanderTurn(w, r) ==
    [w EXCEPT !.orientation = FAdd(w.orientation, FMul(FMul(r, w.rate), TICK_LENGTH))]

WanderTarget(w, m) ==
    VAdd(VAdd(m.position, VScale(forward(m), w.offset)),
         VScale(VRotate(Vec(1, 0), FAdd(m.orientation, w.orientation)), w.radius))

\* Wander::execute once the heading offset has been advanced: field 0 of
\* Face's result and field 1 of Seek's
WanderExecute(w, m) ==
    Some(UnwrapOrZero(FaceExecute(Face(WanderTarget(w, m)), m)).linear,
         UnwrapOrZero(SeekExecute(Seek(WanderTarget(w, m)), m)).angular)

\* dyn MovementStrategy::execute on the strategies a blend holds
Execute(s, m) ==
    CASE s.kind = "Seek" -> SeekExecute(s, m)
      [] s.kind = "Flee" -> FleeExecute(s, m)
      [] s.kind = "Arrive" -> ArriveExecute(s, m)
      [] s.kind = "Align" -> AlignExecute(s, m)
      [] s.kind = "Face" -> FaceExecute(s, m)
      [] s.kind = "Pursue" -> PursueExecute(s, m)
      [] s.kind = "Evade" -> EvadeExecute(s, m)

\* .map(|(linear, angular)| (linear * *weight, angular * *weight))
Weighted(o, weight) ==
    IF o.status = "Some"
    THEN Some(AccVecScale(o.linear, weight), AccScale(o.angular, weight))
    ELSE o

\* .reduce(|(sum_linear, sum_angular), (linear, angular)| ...) over what
\* filter_map let through; a child that panics ends the call
Sum(acc, o) ==
    IF o.status = "Panic" \/ acc.status = "Panic" THEN Panic
    ELSE IF o.status = "None" THEN acc
    ELSE IF acc.status = "None" THEN o
    ELSE Some(AccVecAdd(acc.linear, o.linear), AccAdd(acc.angular, o.angular))

RECURSIVE BlendFrom(_, _, _, _)
BlendFrom(moves, m, i, acc) ==
    IF i > Len(moves) THEN acc
    ELSE BlendFrom(moves, m, i + 1,
                   Sum(acc, Weighted(Execute(moves[i].strategy, m), moves[i].weight)))

Averaged(o, n) ==
    IF o.status = "Some"
    THEN Some(AccVecScale(o.linear, FDiv(R(1), R(n))), AccScale(o.angular, FDiv(R(1), R(n))))
    ELSE o

MovementBlendExecuteAveraged(s, m) == Averaged(BlendFrom(s.moves, m, 1, None), Len(s.moves))

MovementBlendExecute(s, m) == BlendFrom(s.moves, m, 1, None)

---------------------------------------------------------------------------
(* The state before a specification's first call *)

\* The last call on the DynKalman: the receiver as it was when called, the
\* argument, the returned pair and the number of updates so far.
DynCalled(op, before, measurement, result, updates) ==
    [op |-> op, before |-> before, measurement |-> measurement, result |-> result,
     updates |-> updates]

\* No strategy has run and nothing has been returned; the objects in `used`
\* are constructed by the specification, the others are never touched.
Rest(used) ==
    /\ IF "kalman" \in used THEN TRUE
       ELSE kalman = KalmanNew(Zero) /\ measurements = <<>>
    /\ IF "dyn" \in used THEN TRUE
       ELSE /\ dyn = DynKalmanNew(Zero, Zero, Seconds(1))
            /\ dyn_call = DynCalled("new", dyn, Zero, <<Zero, Zero>>, 0)
    /\ IF "motor" \in used THEN TRUE
       ELSE motor = [position |-> VZero, velocity |-> VZero, orientation |-> Zero,
                     rotation |-> Zero, max_linear_acceleration |-> Zero,
                     max_angular_acceleration |-> Zero]
    /\ IF "wander" \in used THEN TRUE
       ELSE wander = [radius |-> Zero, offset |-> Zero, rate |-> Zero, orientation |-> Zero]
    /\ IF "shot" \in used THEN TRUE
       ELSE shot = [target |-> NoKinematic, cannon |-> VZero, projectile_speed |-> Zero]
    /\ strategy = NoStrategy
    /\ out = None
    /\ lead = NoLead

---------------------------------------------------------------------------
(* The estimators in use *)

MaxSamples == 4

\* Kalman::new on a seed; the first seed and the measurements are
\* test_kalman_static's
Kalmans == { KalmanNew(seed) : seed \in {R(1000), R(0)} }

KalmanInit ==
    /\ kalman \in Kalmans
    /\ measurements = <<>>
    /\ Rest({"kalman"})

KalmanUpdateCall ==
    /\ kalman.count < MaxSamples
    /\ \E value \in {R(996), R(994), R(1021)} :
          /\ kalman' = KalmanUpdate(kalman, value)
          /\ measurements' = Append(measurements, value)
    /\ UNCHANGED <<dyn, dyn_call, motor, strategy, wander, out, shot, lead>>

MaxUpdates == 2

\* DynKalman::new; the first seed and measurements are test_kalman_dynamic's
DynKalmans ==
    { DynKalmanNew(R(30000), R(40), Seconds(5)),
      DynKalmanNew(R(0), R(1), Seconds(1)),
      DynKalmanNew(R(10), R(-2), Seconds(2)) }

DynInit ==
    /\ dyn \in DynKalmans
    /\ dyn_call = DynCalled("new", dyn, Zero, <<Zero, Zero>>, 0)
    /\ Rest({"dyn"})

DynUpdateCall ==
    /\ dyn_call.updates < MaxUpdates
    /\ \E measurement \in {R(30171), R(30353), R(0), R(7)} :
          /\ dyn' = DynKalmanUpdate(dyn, measurement)
          /\ dyn_call' = DynCalled("update", dyn, measurement, <<Zero, Zero>>,
                                   dyn_call.updates + 1)
    /\ UNCHANGED <<kalman, measurements, motor, strategy, wander, out, shot, lead>>

DynPredictCall ==
    /\ dyn_call' = DynCalled("predict", dyn, Zero, DynKalmanPredict(dyn), dyn_call.updates)
    /\ UNCHANGED <<kalman, measurements, dyn, motor, strategy, wander, out, shot, lead>>

---------------------------------------------------------------------------
(* What the host supplies each tick *)

\* impl Motor for Ship, of max_forward_acceleration, max_backward_acceleration
\* and max_lateral_acceleration
ShipMaxLinearAcceleration(host) == FMax(FMax(host[1], host[2]), host[3])

\* impl Kinematic for Ship, impl Motor for Ship: the host's readings
Ships ==
    { [position |-> p, velocity |-> v, orientation |-> o, rotation |-> r,
       max_linear_acceleration |-> ShipMaxLinearAcceleration(h),
       max_angular_acceleration |-> R(2)] :
         p \in {Vec(0, 0), Vec(30, 40)},
         v \in {Vec(0, 0), Vec(3, 4), Vec(0, -5)},
         o \in {R(0), Q(1, 2), R(1)},
         r \in {R(0), R(1), R(-2)},
         h \in {<<R(10), R(5), R(5)>>, <<R(2), R(5), R(3)>>} }

\* Where a target lies from the ship: on it, inside, on and beyond the stop
\* and slow radii, along axes, diagonals and 3-4-5 lines.
Offsets ==
    { Vec(0, 0), Vec(9, 12), Vec(25, 0), Vec(0, -26), Vec(30, 40), Vec(-50, 0),
      Vec(99, 0), Vec(60, 80), Vec(0, 100), Vec(101, 0), Vec(-120, -160), Vec(7, 7) }

\* The targets at an exact distance, for Seek, Flee and Arrive
AimedTargets(m) == { VAdd(m.position, d) : d \in { o \in Offsets : HasLength(o) } }

\* The targets along an axis or a diagonal, for Face
FacedTargets(m) == { VAdd(m.position, d) : d \in { o \in Offsets : HasAngle(o) } }

\* Target orientations: on the ship's heading, inside, on and past the stop
\* angle, inside and past the slow angle, both ways round.
TargetOrientations(m) ==
    { FAdd(m.orientation, t) :
        t \in { R(0), Q(1, 720), Q(-1, 720), Q(1, 360), Q(-1, 360), Q(1, 180),
                Q(1, 4), Q(-1, 4), Q(1, 2), Q(-1, 2), Q(3, 4), R(1), Q(5, 4) } }

\* The horizons Pursue and Evade can choose between
Horizons(m, k, d) ==
    {AsSecsF64(d)} \cup
    (IF FEq(speed(m), Zero) THEN {}
     ELSE {FDiv(VLength(VSub(k.position, m.position)), speed(m))})

\* The pursuits whose times and distances are exact under either horizon
Pursuits(m) ==
    { p \in [prey : { [position |-> p, velocity |-> v, orientation |-> Zero,
                       rotation |-> Zero] :
                         p \in {Vec(0, 0), Vec(30, 40), Vec(0, 50), Vec(60, 80)},
                         v \in {Vec(0, 0), Vec(3, 4), Vec(-3, -4), Vec(-10, 0)} },
             max_prediction : {Seconds(1), Seconds(4), Seconds(10), Seconds(20)}] :
        /\ HasLength(VSub(p.prey.position, m.position))
        /\ \A h \in Horizons(m, p.prey, p.max_prediction) :
              /\ OnNanosecondGrid(h)
              /\ HasLength(VSub(VAdd(p.prey.position, VScale(p.prey.velocity, h)),
                                m.position)) }

---------------------------------------------------------------------------
(* One tick of the control loop: read the ship, execute one strategy *)

SteerInit ==
    /\ motor \in Ships
    /\ Rest({"motor"})

\* The host's readings change between ticks.
SenseAmong(ships) ==
    /\ strategy.kind = "none"
    /\ motor' \in ships
    /\ UNCHANGED <<kalman, measurements, dyn, dyn_call, strategy, wander, out, shot, lead>>

\* The tick ends: the strategy object and its result are dropped.
EndTick ==
    /\ strategy.kind # "none"
    /\ strategy' = NoStrategy
    /\ out' = None
    /\ UNCHANGED <<kalman, measurements, dyn, dyn_call, motor, wander, shot, lead>>

\* A strategy is constructed and executed on the ship
Run(s, o) ==
    /\ strategy' = s
    /\ out' = o
    /\ UNCHANGED <<kalman, measurements, dyn, dyn_call, motor, wander, shot, lead>>

SeekCall ==
    /\ strategy.kind = "none"
    /\ \E t \in AimedTargets(motor) : Run(Seek(t), SeekExecute(Seek(t), motor))

FleeCall ==
    /\ strategy.kind = "none"
    /\ \E t \in AimedTargets(motor) : Run(Flee(t), FleeExecute(Flee(t), motor))

ArriveCall ==
    /\ strategy.kind = "none"
    /\ \E t \in AimedTargets(motor) : Run(Arrive(t), ArriveExecute(Arrive(t), motor))

AlignCall ==
    /\ strategy.kind = "none"
    /\ \E a \in TargetOrientations(motor) : Run(Align(a), AlignExecute(Align(a), motor))

FaceCall ==
    /\ strategy.kind = "none"
    /\ \E t \in FacedTargets(motor) : Run(Face(t), FaceExecute(Face(t), motor))

PursueCall ==
    /\ strategy.kind = "none"
    /\ \E p \in Pursuits(motor) :
          Run(Pursue(p.prey, p.max_prediction),
              PursueExecute(Pursue(p.prey, p.max_prediction), motor))

EvadeCall ==
    /\ strategy.kind = "none"
    /\ \E p \in Pursuits(motor) :
          Run(Evade(p.prey, p.max_prediction),
              EvadeExecute(Evade(p.prey, p.max_prediction), motor))

MaxWanderTurns == 1

Wanders ==
    { [radius |-> r, offset |-> f, rate |-> R(60), orientation |-> Zero] :
         r \in {R(0), R(10)}, f \in {R(0), R(10)} }

\* Wander reads the ship's position, heading, rotation and limits only.
WanderShips == { m \in Ships : m.velocity = VZero /\ m.max_linear_acceleration = R(10) }

WanderInit ==
    /\ motor \in WanderShips
    /\ wander \in Wanders
    /\ Rest({"motor", "wander"})

\* rand(-1.0, 1.0) draws from [-1, 1); the draws that leave the wander target
\* at an exact distance
Draws(w, m) ==
    { r \in {R(-1), Q(-1, 2), R(0), Q(1, 2)} :
        HasLength(VSub(WanderTarget(WanderTurn(w, r), m), m.position)) }

WanderCall ==
    /\ strategy.kind = "none"
    /\ \E r \in Draws(wander, motor) :
          /\ FLe(FAbs(WanderTurn(wander, r).orientation), R(MaxWanderTurns))
          /\ wander' = WanderTurn(wander, r)
          /\ out' = WanderExecute(WanderTurn(wander, r), motor)
    /\ strategy' = [NoStrategy EXCEPT !.kind = "Wander"]
    /\ UNCHANGED <<kalman, measurements, dyn, dyn_call, motor, shot, lead>>

MaxMoves == 2

\* The (strategy, weight) pairs a blend is built from: some command, some abstain.
Moves(m) ==
    { [strategy |-> Seek(VAdd(m.position, Vec(30, 40))), weight |-> R(1)],
      [strategy |-> Seek(m.position), weight |-> R(1)],
      [strategy |-> Flee(VAdd(m.position, Vec(0, -26))), weight |-> Q(1, 2)],
      [strategy |-> Arrive(VAdd(m.position, Vec(9, 12))), weight |-> R(2)],
      [strategy |-> Arrive(VAdd(m.position, Vec(60, 80))), weight |-> R(1)],
      [strategy |-> Align(FAdd(m.orientation, Q(1, 4))), weight |-> R(3)],
      [strategy |-> Face(m.position), weight |-> R(3)] }

Blends(m) == UNION { [1..n -> Moves(m)] : n \in 0..MaxMoves }

BlendCall ==
    /\ strategy.kind = "none"
    /\ \E moves \in Blends(motor) :
          Run(MovementBlend(moves), MovementBlendExecute(MovementBlend(moves), motor))

---------------------------------------------------------------------------
(* Aiming: a target, a cannon and a projectile speed *)

\* The shots whose discriminant has an exact root and whose candidate times
\* are whole numbers of nanoseconds.
Shots ==
    { s \in [target : { [position |-> p, velocity |-> v, orientation |-> Zero,
                         rotation |-> Zero] :
                           p \in {Vec(10, 0), Vec(0, 10), Vec(-10, 0), Vec(6, 8),
                                  Vec(0, 0), Vec(30, 40), Vec(-6, -8)},
                           v \in {Vec(0, 0), Vec(3, 4), Vec(-3, -4), Vec(5, 0),
                                  Vec(-5, 0), Vec(0, 5), Vec(6, 8), Vec(-6, -8)} },
             cannon : {Vec(0, 0), Vec(6, 8)},
             projectile_speed : {R(0), R(5), R(10)}] :
        /\ IsSquare(LeadDiscriminant(s.target, s.cannon, s.projectile_speed))
        /\ \A i \in 1..2 :
              OnNanosecondGrid(LeadRoots(s.target, s.cannon, s.projectile_speed)[i]) }

LeadInit ==
    /\ shot \in Shots
    /\ Rest({"shot"})

Aim ==
    /\ lead.op = "none"
    /\ shot' \in Shots
    /\ UNCHANGED <<kalman, measurements, dyn, dyn_call, motor, strategy, wander, out, lead>>

\* The result of the call is consumed.
LeadDone ==
    /\ lead.op # "none"
    /\ lead' = NoLead
    /\ UNCHANGED <<kalman, measurements, dyn, dyn_call, motor, strategy, wander, out, shot>>

LeadTimeCall ==
    /\ lead.op = "none"
    /\ lead' = lead_time(shot.target, shot.cannon, shot.projectile_speed)
    /\ UNCHANGED <<kalman, measurements, dyn, dyn_call, motor, strategy, wander, out, shot>>

LeadPositionCall ==
    /\ lead.op = "none"
    /\ lead' = lead_position(shot.target, shot.cannon, shot.projectile_speed)
    /\ UNCHANGED <<kalman, measurements, dyn, dyn_call, motor, strategy, wander, out, shot>>

---------------------------------------------------------------------------
(* Specifications: one per component, and the whole *)

SpecKalman ==
    /\ KalmanInit
    /\ [][KalmanUpdateCall]_vars

SpecDyn ==
    /\ DynInit
    /\ [][DynUpdateCall \/ DynPredictCall]_vars

SpecSteer ==
    /\ SteerInit
    /\ [][\/ SenseAmong(Ships)
          \/ EndTick
          \/ SeekCall
          \/ FleeCall
          \/ ArriveCall
          \/ AlignCall
          \/ FaceCall
          \/ PursueCall
          \/ EvadeCall]_vars

SpecWander ==
    /\ WanderInit
    /\ [][SenseAmong(WanderShips) \/ EndTick \/ WanderCall]_vars

SpecBlend ==
    /\ SteerInit
    /\ [][SenseAmong(Ships) \/ EndTick \/ BlendCall]_vars

SpecLead ==
    /\ LeadInit
    /\ [][Aim \/ LeadDone \/ LeadTimeCall \/ LeadPositionCall]_vars

Init ==
    /\ kalman \in Kalmans
    /\ measurements = <<>>
    /\ dyn \in DynKalmans
    /\ dyn_call = DynCalled("new", dyn, Zero, <<Zero, Zero>>, 0)
    /\ motor \in WanderShips
    /\ wander \in Wanders
    /\ shot \in Shots
    /\ Rest({"kalman", "dyn", "motor", "wander", "shot"})

Next ==
    \/ KalmanUpdateCall
    \/ DynUpdateCall
    \/ DynPredictCall
    \/ SenseAmong(Ships)
    \/ EndTick
    \/ SeekCall
    \/ FleeCall
    \/ ArriveCall
    \/ AlignCall
    \/ FaceCall
    \/ PursueCall
    \/ EvadeCall
    \/ WanderCall
    \/ BlendCall
    \/ Aim
    \/ LeadDone
    \/ LeadTimeCall
    \/ LeadPositionCall

Spec == Init /\ [][Next]_vars

---------------------------------------------------------------------------
(* Properties of the estimators *)

RECURSIVE Total(_)
Total(s) == IF s = <<>> THEN Zero ELSE FAdd(Total(Tail(s)), Head(s))

\* C1: after n >= 1 updates the estimate is the arithmetic mean of the n
\* measurements fed to update, whatever the seed was, and count is n.
KalmanIsRunningMean ==
    /\ kalman.count = Len(measurements)
    /\ kalman.count > 0 =>
          kalman.estimate = FDiv(Total(measurements), R(Len(measurements)))

\* The first three measurements of test_kalman_static: the mean is 1003.67.
KalmanMeanOfThree ==
    /\ measurements = <<R(996), R(994), R(1021)>>
    /\ kalman.count = 3
    /\ kalman.estimate = Q(3011, 3)

PredictedValue(d) == FAdd(d.est_value, FMul(d.est_change, AsSecsF64(d.interval)))

Residual(d, measurement) == FSub(measurement, PredictedValue(d))

\* C2: update predicts from the state it is called on and corrects the value
\* by alpha times the residual and the rate by beta times the residual over
\* the interval, with alpha = 0.2 and beta = 0.1 throughout; predict returns
\* (est_value + est_change * interval, est_change) and changes nothing.
DynKalmanPredictsThenCorrects ==
    /\ dyn.alpha = Q(1, 5)
    /\ dyn.beta = Q(1, 10)
    /\ dyn.interval = dyn_call.before.interval
    /\ dyn_call.op = "update" =>
          /\ dyn.est_value =
                FAdd(PredictedValue(dyn_call.before),
                     FMul(Q(1, 5), Residual(dyn_call.before, dyn_call.measurement)))
          /\ dyn.est_change =
                FAdd(dyn_call.before.est_change,
                     FDiv(FMul(Q(1, 10), Residual(dyn_call.before, dyn_call.measurement)),
                          AsSecsF64(dyn.interval)))
    /\ dyn_call.op = "predict" =>
          /\ dyn_call.result = <<PredictedValue(dyn), dyn.est_change>>
          /\ dyn = dyn_call.before

\* The first row of test_kalman_dynamic: after update(30171) on
\* (30000, 40, 5 s) the estimate is (30194.2, 39.42) and predict returns
\* (30391.3, 39.42).
DynKalmanFirstRow ==
    /\ dyn_call.op = "predict"
    /\ dyn_call.updates = 1
    /\ dyn.interval = Seconds(5)
    /\ dyn.est_value = Q(150971, 5)
    /\ dyn.est_change = Q(1971, 50)
    /\ dyn_call.result = <<Q(303913, 10), Q(1971, 50)>>

---------------------------------------------------------------------------
(* Properties of the blend *)

Commands(moves, m) ==
    { i \in 1..Len(moves) : Execute(moves[i].strategy, m).status = "Some" }

WeightedOutput(move, m) ==
    <<AccVecScale(Execute(move.strategy, m).linear, move.weight),
      AccScale(Execute(move.strategy, m).angular, move.weight)>>

AddOutput(a, b) == <<AccVecAdd(a[1], b[1]), AccAdd(a[2], b[2])>>

\* The sum of weight * output over the children from i on that command
RECURSIVE SumOfCommands(_, _, _)
SumOfCommands(moves, m, i) ==
    IF i > Len(moves) THEN <<AccVecZero, AccZero>>
    ELSE IF i \in Commands(moves, m)
    THEN AddOutput(WeightedOutput(moves[i], m), SumOfCommands(moves, m, i + 1))
    ELSE SumOfCommands(moves, m, i + 1)

\* Of two children, the one that commands when the other abstains
OnlyCommand(moves, m) == CHOOSE i \in Commands(moves, m) : TRUE

\* C3: a blend returns the component-wise sum of weight * output over the
\* children that did not abstain, divided by nothing; it abstains exactly
\* when every child abstains, the empty list included; of two children of
\* equal weight of which one abstains it returns the other's weighted output.
BlendSumsWeightedOutputs ==
    strategy.kind = "MovementBlend" =>
        /\ out.status \in {"None", "Some"}
        /\ out.status = "None" <=> Commands(strategy.moves, motor) = {}
        /\ out.status = "Some" =>
              <<out.linear, out.angular>> = SumOfCommands(strategy.moves, motor, 1)
        /\ (/\ Len(strategy.moves) = 2
            /\ strategy.moves[1].weight = strategy.moves[2].weight
            /\ Cardinality(Commands(strategy.moves, motor)) = 1) =>
              <<out.linear, out.angular>> =
                  WeightedOutput(strategy.moves[OnlyCommand(strategy.moves, motor)], motor)

\* Two children of weight 1: a Seek at the ship's own position, which
\* abstains, and a Seek that commands; the blend returns the second's output.
BlendOfOneAbstainer ==
    /\ strategy.kind = "MovementBlend"
    /\ Len(strategy.moves) = 2
    /\ strategy.moves[1] = [strategy |-> Seek(motor.position), weight |-> R(1)]
    /\ strategy.moves[2] =
          [strategy |-> Seek(VAdd(motor.position, Vec(30, 40))), weight |-> R(1)]
    /\ motor.max_linear_acceleration = R(10)
    /\ out = Some(AccVec(Vec(6, 8)), AccZero)

---------------------------------------------------------------------------
(* Properties of the steering strategies *)

\* C4: Align abstains if and only if the absolute angle difference between
\* the orientation and the target is at most the stop angle, whatever the
\* rotation rate.
AlignAbstainsIffWithinStopAngle ==
    strategy.kind = "Align" =>
        (out.status = "None" <=>
            FLe(FAbs(angle_diff(motor.orientation, strategy.angle)), stop_angle(motor)))

\* The finite and commanded part of an acceleration
Commanded(linear) == <<linear[1][1], linear[2][1]>>

SeekAndFleeOppose(seek, flee, target, m) ==
    /\ seek.status = "None" <=> target = m.position
    /\ flee.status = "None" <=> target = m.position
    /\ target # m.position =>
          /\ seek.status = "Some" /\ flee.status = "Some"
          /\ seek.linear =
                AccVec(VScale(VNormalize(VSub(target, m.position)), m.max_linear_acceleration))
          /\ flee.linear =
                AccVec(VScale(VNormalize(VSub(m.position, target)), m.max_linear_acceleration))
          /\ seek.linear = AccVecScale(flee.linear, R(-1))
          /\ VLength(Commanded(seek.linear)) = m.max_linear_acceleration
          /\ VLength(Commanded(flee.linear)) = m.max_linear_acceleration
          /\ seek.angular = AccZero /\ flee.angular = AccZero

\* C7: for one target and one motor state Seek and Flee abstain together,
\* exactly when the target is the position; otherwise Seek's linear output is
\* the negation of Flee's, Seek along the unit vector to the target, both of
\* magnitude max_linear_acceleration and with angular component 0.
SeekIsFleeNegated ==
    /\ strategy.kind = "Seek" =>
          SeekAndFleeOppose(out, FleeExecute(Flee(strategy.target), motor),
                            strategy.target, motor)
    /\ strategy.kind = "Flee" =>
          SeekAndFleeOppose(SeekExecute(Seek(strategy.target), motor), out,
                            strategy.target, motor)

\* Seek at a target 50 away along (3, 4) with acceleration limit 10: (6, 8).
SeekCommands ==
    /\ strategy.kind = "Seek"
    /\ VSub(strategy.target, motor.position) = Vec(30, 40)
    /\ motor.max_linear_acceleration = R(10)
    /\ out = Some(AccVec(Vec(6, 8)), AccZero)

Distance(s, m) == VLength(VSub(s.target, m.position))

ScaledSpeed(distance, m) ==
    IF FLe(distance, slow_radius(m))
    THEN FMul(m.max_linear_acceleration, FDiv(distance, slow_radius(m)))
    ELSE m.max_linear_acceleration

\* C8: Arrive abstains exactly when the distance is at most stop_radius;
\* beyond it the commanded speed grows linearly with the distance up to
\* slow_radius, is max_linear_acceleration at slow_radius and beyond, and
\* never decreases with the distance; the output is (speed * unit direction -
\* velocity) / control horizon with angular component 0.
ArriveSlowsSmoothly ==
    strategy.kind = "Arrive" =>
      /\ out.status = "None" <=> FLe(Distance(strategy, motor), stop_radius(motor))
      /\ out.status # "None" =>
            out = Some(AccVecOverHorizon(
                           VSub(VScale(VNormalize(VSub(strategy.target, motor.position)),
                                       ScaledSpeed(Distance(strategy, motor), motor)),
                                motor.velocity)),
                       AccZero)
      /\ ArriveMagnitude(slow_radius(motor), motor) = motor.max_linear_acceleration
      /\ \A far \in AimedTargets(motor) :
            (/\ FGt(Distance(strategy, motor), stop_radius(motor))
             /\ FLe(Distance(strategy, motor), Distance(Arrive(far), motor))) =>
                FLe(ArriveMagnitude(Distance(strategy, motor), motor),
                    ArriveMagnitude(Distance(Arrive(far), motor), motor))

\* Arrive from rest at a target 50 away along (3, 4) with acceleration limit
\* 10: half the limit, (3, 4), over the control horizon.
ArriveInsideSlowRadius ==
    /\ strategy.kind = "Arrive"
    /\ VSub(strategy.target, motor.position) = Vec(30, 40)
    /\ motor.velocity = VZero
    /\ motor.max_linear_acceleration = R(10)
    /\ out = Some(AccVecOverHorizon(Vec(3, 4)), AccZero)

Prediction(s, m) ==
    IF s.kind = "Pursue" THEN PursuePrediction(s, m) ELSE EvadePrediction(s, m)

PreyDistance(s, m) == VLength(VSub(s.prey.position, m.position))

TooSlow(s, m) == FLe(speed(m), FDiv(PreyDistance(s, m), AsSecsF64(s.max_prediction)))

Horizon(s, m) ==
    IF TooSlow(s, m) THEN AsSecsF64(s.max_prediction)
    ELSE FDiv(PreyDistance(s, m), speed(m))

Extrapolated(s, m) == VAdd(s.prey.position, VScale(s.prey.velocity, Horizon(s, m)))

WanderPoint == WanderTarget(wander, motor)

\* C9: Wander never abstains; its linear component is Seek's linear
\* acceleration toward the wander target, the one the heading offset as
\* advanced by this call gives, and its angular component is Face's angular
\* acceleration toward it, each zero where the delegate abstains.
WanderBlendsSeekAndFace ==
    strategy.kind = "Wander" =>
        /\ out.status = "Some"
        /\ out.linear = UnwrapOrZero(SeekExecute(Seek(WanderPoint), motor)).linear
        /\ out.angular = UnwrapOrZero(FaceExecute(Face(WanderPoint), motor)).angular

---------------------------------------------------------------------------
(* Properties of the lead computation *)

ShotA == LeadA(shot.target, shot.projectile_speed)

ShotB == LeadB(shot.target, shot.cannon)

ShotC == LeadC(shot.target, shot.cannon)

\* The times t with a*t^2 + b*t + c = 0
Solutions(a, b, c) ==
    IF a # Zero
    THEN { FDiv(FAdd(FNeg(b), FSqrt(Discriminant(a, b, c))), FMul(R(2), a)),
           FDiv(FSub(FNeg(b), FSqrt(Discriminant(a, b, c))), FMul(R(2), a)) }
    ELSE IF b # Zero THEN { FDiv(FNeg(c), b) }
    ELSE {}

Positive(times) == { t \in times : FGt(t, Zero) }

Least(times) == CHOOSE t \in times : \A u \in times : FLe(t, u)

Intercept(a, b, c) ==
    IF FLt(Discriminant(a, b, c), Zero) \/ Positive(Solutions(a, b, c)) = {}
    THEN [status |-> "None", time |-> Seconds(0)]
    ELSE [status |-> "Some",
          time |-> DurationFromSecsF64(Least(Positive(Solutions(a, b, c))))]

\* C5: lead_time is absent when the discriminant is negative or no root is
\* positive and the smaller positive root otherwise; lead_position is
\* at_time(lead_time) when lead_time is present and absent otherwise.
LeadTimeIsSmallestPositiveRoot ==
    lead.op # "none" =>
        /\ lead.status = Intercept(ShotA, ShotB, ShotC).status
        /\ lead.status = "Some" => lead.time = Intercept(ShotA, ShotB, ShotC).time
        /\ (lead.status = "Some" /\ lead.op = "lead_position") =>
              lead.position = at_time(shot.target, lead.time)

\* C6: when the target is as fast as the projectile (a = 0) lead_time
\* returns a finite positive solution of b*t + c = 0 or absent, and never
\* faults or yields an infinite or undefined time.
LeadTimeSurvivesEqualSpeeds ==
    (lead.op # "none" /\ ShotA = Zero) =>
        /\ lead.status \in {"None", "Some"}
        /\ lead.status = "Some" =>
              /\ FGt(AsSecsF64(lead.time), Zero)
              /\ FAdd(FMul(ShotB, AsSecsF64(lead.time)), ShotC) = Zero

====
